---- MODULE Spec2Model ----
(***************************************************************************)
(* calendar-summary: one run of main() -- fetch the weekly and monthly     *)
(* events from the calendar provider, build the text for the summariser,   *)
(* ask the summarisation service for a summary, bound it to the channel    *)
(* limit and deliver it.                                                   *)
(*                                                                         *)
(* Representation.                                                         *)
(*  - A Python dict is a TLA+ record whose DOMAIN is the set of keys that  *)
(*    are present; d.get(k, default) is Get(d, k, default).                *)
(*  - A Python str is a TLA+ string (Len, \o and SubSeq act on it as       *)
(*    len, + and slicing).  Two characters outside ASCII are written with  *)
(*    one ASCII character each: the calendar emoji of the subject line is  *)
(*    "#", the bullet of an event block is "*".                            *)
(*  - A text made of lines is the sequence of its lines, each line         *)
(*    standing for the line followed by "\n".                              *)
(*  - An ISO 8601 value (the provider's 'date' and 'dateTime' strings) is  *)
(*    a record [T, day, min, z, off]: T says whether the string has a      *)
(*    time part ('T' in s), day counts days from 2024-01-10, min is the    *)
(*    local minute of the day, z says the zone is written "Z", off is the  *)
(*    UTC offset in minutes.                                               *)
(*  - Python's None is the string None.                                    *)
(***************************************************************************)
EXTENDS Integers, Sequences, FiniteSets, TLC

VARIABLES
    pc,             \* position of main(): the step it executes next
    weekly_only,    \* args.weekly_only
    DRY_RUN,        \* Config.DRY_RUN
    weekly_raw,     \* what the provider answered to the weekly fetch
    monthly_raw,    \* what the provider answered to the monthly fetch
    weekly_events,  \* main: weekly_events
    monthly_events, \* main: monthly_events, [none, list]
    events_text,    \* generate_summary: events_text
    summary,        \* main: summary
    message,        \* the argument send_summary hands to send_message
    twilio_calls,   \* number of client.messages.create calls made
    exc,            \* the exception that ended the run, or "none"
    printed,        \* send_message, dry run: what print(message) wrote, in order
    api_result      \* generate_summary: how the API call in its try block ended

vars == <<pc, weekly_only, DRY_RUN, weekly_raw, monthly_raw, weekly_events,
          monthly_events, events_text, summary, message, twilio_calls, exc, printed,
          api_result>>

(***************************************************************************)
(* Bounds of the model                                                     *)
(***************************************************************************)
MaxBatch == 2
MaxEvents == 2
MaxAttendees == 2
MaxDescLen == 210
MaxSummaryLen == 1700

(***************************************************************************)
(* Program constants                                                       *)
(***************************************************************************)
WhatsAppLimit == 1600
TruncateAt == 1550
DescPreviewLen == 200

None == "None"

Get(d, k, default) == IF k \in DOMAIN d THEN d[k] ELSE default

EmptyDict == [k \in {} |-> None]

(***************************************************************************)
(* Strings of a chosen length whose characters depend on their position:   *)
(* substrings of "0001000200030004...".                                    *)
(***************************************************************************)
Pad4(i) ==
    IF i < 10 THEN "000" \o ToString(i)
    ELSE IF i < 100 THEN "00" \o ToString(i)
    ELSE IF i < 1000 THEN "0" \o ToString(i)
    ELSE ToString(i)

RECURSIVE Numbers(_, _)
Numbers(lo, hi) ==
    IF lo > hi THEN ""
    ELSE IF lo = hi THEN Pad4(lo)
    ELSE LET mid == (lo + hi) \div 2
         IN  Numbers(lo, mid) \o Numbers(mid + 1, hi)

LongText == Numbers(1, (MaxSummaryLen \div 4) + 2)

Seeds == {1, 2}

TextOf(seed, n) == SubSeq(LongText, seed, seed + n - 1)

(***************************************************************************)
(* ISO 8601 values and datetime                                            *)
(***************************************************************************)
IsoDate(d) == [T |-> FALSE, day |-> d, min |-> 0, z |-> FALSE, off |-> 0]

IsoDateTime(d, m, z, o) == [T |-> TRUE, day |-> d, min |-> m, z |-> z, off |-> o]

\* s.replace('Z', '+00:00')
ReplaceZ(s) == [s EXCEPT !.z = FALSE]

\* datetime.fromisoformat(s): a date-only string gives a naive datetime at
\* midnight, a string with an offset gives an aware one.
FromIsoFormat(s) == [aware |-> s.T, day |-> s.day, min |-> s.min, off |-> s.off]

\* a > b on two datetimes raises TypeError when one is naive and the other
\* aware; two aware ones compare by instant, two naive ones by wall clock.
Comparable(a, b) == a.aware = b.aware

Ticks(a) == a.day * 1440 + a.min - a.off

GreaterThan(a, b) == Ticks(a) > Ticks(b)

Two(n) == IF n < 10 THEN "0" \o ToString(n) ELSE ToString(n)

\* the 'YYYY-MM-DD' part of an ISO value
DatePart(s) == "2024-01-" \o Two(10 + s.day)

\* dt.strftime('%H:%M')
HourMinute(dt) == Two(dt.min \div 60) \o ":" \o Two(dt.min % 60)

\* dt.strftime('%Y-%m-%d %H:%M')
DateHourMinute(dt) == "2024-01-" \o Two(10 + dt.day) \o " " \o HourMinute(dt)

(***************************************************************************)
(* calendar_client.py                                                      *)
(***************************************************************************)
IsDeclined(event) ==
    LET attendees == Get(event, "attendees", <<>>)
    IN  \E i \in 1..Len(attendees) :
            /\ Get(attendees[i], "self", FALSE)
            /\ Get(attendees[i], "responseStatus", None) = "declined"

\* event['start'] or event['end'] raises KeyError
RaisesKeyError(event) == "start" \notin DOMAIN event \/ "end" \notin DOMAIN event

\* the entry with a default given to get('responseStatus')
ProcessAttendeeNeedsAction(attendee) ==
    [email  |-> Get(attendee, "email", None),
     name   |-> Get(attendee, "displayName", Get(attendee, "email", None)),
     status |-> Get(attendee, "responseStatus", "needsAction")]

ProcessAttendee(attendee) ==
    [email  |-> Get(attendee, "email", None),
     name   |-> Get(attendee, "displayName", Get(attendee, "email", None)),
     status |-> Get(attendee, "responseStatus", None)]

\* the loop of _process_event without its test of 'self'
RECURSIVE ProcessAttendeesKeepSelf(_)
ProcessAttendeesKeepSelf(attendees) ==
    IF Len(attendees) = 0 THEN <<>>
    ELSE <<ProcessAttendee(Head(attendees))>> \o ProcessAttendeesKeepSelf(Tail(attendees))

RECURSIVE ProcessAttendees(_)
ProcessAttendees(attendees) ==
    IF Len(attendees) = 0 THEN <<>>
    ELSE IF ~Get(Head(attendees), "self", FALSE)
         THEN <<ProcessAttendee(Head(attendees))>> \o ProcessAttendees(Tail(attendees))
         ELSE ProcessAttendees(Tail(attendees))

StartValue(event) ==
    Get(event.start, "dateTime", Get(event.start, "date", None))

EndValue(event) ==
    Get(event.end, "dateTime", Get(event.end, "date", None))

IsAllDay(event) == "date" \in DOMAIN event.start

ProcessEvent(event) ==
    [summary     |-> Get(event, "summary", "No Title"),
     description |-> Get(event, "description", ""),
     start       |-> StartValue(event),
     end         |-> EndValue(event),
     is_all_day  |-> IsAllDay(event),
     location    |-> Get(event, "location", ""),
     attendees   |-> ProcessAttendees(Get(event, "attendees", <<>>)),
     organizer   |-> Get(Get(event, "organizer", EmptyDict), "displayName", "Unknown"),
     html_link   |-> Get(event, "htmlLink", "")]

\* the loop of get_events over the provider's items; a KeyError of
\* _process_event leaves the loop and get_events (only HttpError is caught)
RECURSIVE FilterLoop(_, _)
FilterLoop(events, filtered_events) ==
    IF Len(events) = 0 THEN [exc |-> "none", events |-> filtered_events]
    ELSE LET event == Head(events)
         IN  IF IsDeclined(event) THEN FilterLoop(Tail(events), filtered_events)
             ELSE IF RaisesKeyError(event) THEN [exc |-> "KeyError", events |-> <<>>]
             ELSE FilterLoop(Tail(events), Append(filtered_events, ProcessEvent(event)))

\* get_events on the provider's answer resp: [kind, items] with kind
\* "items" (a list came back), "HttpError" (execute() raised HttpError,
\* caught: prints and returns []) or "OtherError" (execute() raised
\* anything else, which get_events does not catch)
GetEvents(resp) ==
    IF resp.kind = "HttpError" THEN [exc |-> "none", events |-> <<>>]
    ELSE IF resp.kind = "OtherError" THEN [exc |-> "ProviderError", events |-> <<>>]
    ELSE FilterLoop(resp.items, <<>>)

(***************************************************************************)
(* summariser.py                                                           *)
(***************************************************************************)
WeeklyHeader == "=== WEEKLY EVENTS (Next 7 Days) ==="

NoEventsLine == "No events scheduled for the next week."

MonthlyHeader == "=== MONTHLY LOOK-AHEAD (Important Items Beyond This Week) ==="

\* the date/time line of _format_single_event.  Every start and end of the
\* model parses, so the try block always completes.
TimeStr(event) ==
    IF event.is_all_day
    THEN DatePart(event.start) \o " (All Day)"
    ELSE LET start_dt == FromIsoFormat(ReplaceZ(event.start))
             end_dt   == FromIsoFormat(ReplaceZ(event.end))
         IN  DateHourMinute(start_dt) \o " - " \o HourMinute(end_dt)

\* the preview with the test len(description) >= 200
DescPreviewFromLimit(description) ==
    IF Len(description) >= DescPreviewLen
    THEN SubSeq(description, 1, DescPreviewLen) \o "..."
    ELSE description

DescPreview(description) ==
    IF Len(description) > DescPreviewLen
    THEN SubSeq(description, 1, DescPreviewLen) \o "..."
    ELSE description

\* a variant that writes the description before the location; C10_FieldOrder
\* tells it from FormatSingleEvent
FormatSingleEventDescFirst(event) ==
    <<"* " \o event.summary, "  Time: " \o TimeStr(event)>>
    \o (IF event.description # ""
        THEN <<"  Description: " \o DescPreview(event.description)>> ELSE <<>>)
    \o (IF event.location # "" THEN <<"  Location: " \o event.location>> ELSE <<>>)
    \o (IF Len(event.attendees) > 0
        THEN <<"  Attendees: " \o ToString(Len(event.attendees)) \o " people">>
        ELSE <<>>)

FormatSingleEvent(event) ==
    <<"* " \o event.summary, "  Time: " \o TimeStr(event)>>
    \o (IF event.location # "" THEN <<"  Location: " \o event.location>> ELSE <<>>)
    \o (IF event.description # ""
        THEN <<"  Description: " \o DescPreview(event.description)>> ELSE <<>>)
    \o (IF Len(event.attendees) > 0
        THEN <<"  Attendees: " \o ToString(Len(event.attendees)) \o " people">>
        ELSE <<>>)

\* for event in events: output += _format_single_event(event); output += "\n"
RECURSIVE FormatAll(_)
FormatAll(events) ==
    IF Len(events) = 0 THEN <<>>
    ELSE FormatSingleEvent(Head(events)) \o <<"">> \o FormatAll(Tail(events))

EventStart(event) == FromIsoFormat(ReplaceZ(event.start))

\* event_start > weekly_end raises TypeError (weekly_end is set and one of
\* the two datetimes is naive, the other aware)
CompareRaises(weekly_events_, event) ==
    /\ Len(weekly_events_) > 0
    /\ ~Comparable(EventStart(event), EventStart(weekly_events_[Len(weekly_events_)]))

\* a variant that compares with >=; C4_MonthlyIsStrictlyLater tells it from
\* IsFuture
IsFutureOrEqual(weekly_events_, event) ==
    /\ Len(weekly_events_) > 0
    /\ ~GreaterThan(EventStart(weekly_events_[Len(weekly_events_)]), EventStart(event))

\* a variant that keeps every monthly event when there is no weekly_end;
\* C9_EmptyWeeklyNoMonthly tells it from IsFuture
IsFutureUnguarded(weekly_events_, event) ==
    \/ Len(weekly_events_) = 0
    \/ GreaterThan(EventStart(event), EventStart(weekly_events_[Len(weekly_events_)]))

\* if weekly_end and event_start > weekly_end
IsFuture(weekly_events_, event) ==
    /\ Len(weekly_events_) > 0
    /\ GreaterThan(EventStart(event), EventStart(weekly_events_[Len(weekly_events_)]))

FutureEvents(weekly_events_, monthly_list) ==
    SelectSeq(monthly_list, LAMBDA event : IsFuture(weekly_events_, event))

\* _format_events_for_claude: [exc, text]
FormatEventsForClaude(weekly_events_, monthly_events_) ==
    LET weekly_part ==
            <<WeeklyHeader, "">>
            \o (IF Len(weekly_events_) = 0 THEN <<NoEventsLine>>
                ELSE FormatAll(weekly_events_))
        monthly_list == monthly_events_.list
    IN  IF monthly_events_.none \/ Len(monthly_list) = 0
        THEN [exc |-> "none", text |-> weekly_part]
        ELSE IF \E i \in 1..Len(monthly_list) :
                    CompareRaises(weekly_events_, monthly_list[i])
        THEN [exc |-> "TypeError", text |-> <<>>]
        ELSE LET future_events == FutureEvents(weekly_events_, monthly_list)
             IN  [exc  |-> "none",
                  text |-> weekly_part
                           \o (IF Len(future_events) > 0
                               THEN <<"", MonthlyHeader, "">> \o FormatAll(future_events)
                               ELSE <<>>)]

\* what generate_summary returns once the API call ended: the text of the
\* answer, or the failure text when the call raised
SummaryOf(outcome) ==
    IF outcome.ok THEN outcome.text
    ELSE "Failed to generate summary: " \o outcome.text

(***************************************************************************)
(* whatsapp_client.py                                                      *)
(***************************************************************************)
Subject == "# Weekly Calendar Summary"

TruncationMarker == "\n\n... (message truncated)"

\* a variant that cuts at the limit and leaves no room for the marker;
\* C2_BodyWithinLimit tells it from FormattedMessage
FormattedMessageCutAtLimit(summary_, subject) ==
    LET formatted_message == subject \o "\n\n" \o summary_
    IN  IF Len(formatted_message) > WhatsAppLimit
        THEN SubSeq(formatted_message, 1, WhatsAppLimit) \o TruncationMarker
        ELSE formatted_message

\* a variant that truncates from the limit on (>= for >);
\* C3_BodyIsMessageOrCut tells it from FormattedMessage
FormattedMessageFromLimit(summary_, subject) ==
    LET formatted_message == subject \o "\n\n" \o summary_
    IN  IF Len(formatted_message) >= WhatsAppLimit
        THEN SubSeq(formatted_message, 1, TruncateAt) \o TruncationMarker
        ELSE formatted_message

\* send_summary up to its call of send_message
FormattedMessage(summary_, subject) ==
    LET formatted_message == subject \o "\n\n" \o summary_
    IN  IF Len(formatted_message) > WhatsAppLimit
        THEN SubSeq(formatted_message, 1, TruncateAt) \o TruncationMarker
        ELSE formatted_message

(***************************************************************************)
(* Inputs: what the provider, the summarisation service and the delivery   *)
(* service may answer                                                      *)
(***************************************************************************)
MySelf == "me@example.org"

\* the 'attendees' entry of a raw record: absent, or one of these lists
AttendeeOptions ==
    { EmptyDict,
      [attendees |-> <<[self |-> TRUE, email |-> MySelf, responseStatus |-> "declined"]>>],
      [attendees |-> <<[email |-> "ann@example.org", responseStatus |-> "declined"],
                       [self |-> TRUE, email |-> MySelf, responseStatus |-> "accepted"],
                       [self |-> FALSE, email |-> "bob@example.org", displayName |-> "Bob"]>>],
      [attendees |-> <<[self |-> FALSE, email |-> "bob@example.org", displayName |-> "Bob"],
                       [self |-> TRUE, email |-> MySelf, responseStatus |-> "declined"]>>] }

\* the 'start' and 'end' entries of the i-th raw record of a batch: one of
\* them absent, or both present with a start carrying dateTime, date or both
TimeOptions(i) ==
    LET dt(m) == IsoDateTime(i, m, FALSE, 60)
    IN  { [end |-> [dateTime |-> dt(600)]],
          [start |-> [dateTime |-> dt(540)]],
          [start |-> [dateTime |-> dt(540)], end |-> [dateTime |-> dt(600)]],
          [start |-> [date |-> IsoDate(i)], end |-> [date |-> IsoDate(i + 1)]],
          [start |-> [dateTime |-> dt(540), date |-> IsoDate(i)],
           end |-> [dateTime |-> dt(600)]] }

Link(i) == "https://calendar.example.org/event/" \o ToString(i)

RawEvents(i) ==
    { [htmlLink |-> Link(i), summary |-> "Event " \o ToString(i)] @@ t @@ a :
        t \in TimeOptions(i), a \in AttendeeOptions }

RECURSIVE BatchesOfLen(_)
BatchesOfLen(n) ==
    IF n = 0 THEN { <<>> }
    ELSE { Append(b, r) : b \in BatchesOfLen(n - 1), r \in RawEvents(n) }

Answers(batches) ==
    { [kind |-> "HttpError", items |-> <<>>], [kind |-> "OtherError", items |-> <<>>] }
    \cup { [kind |-> "items", items |-> b] : b \in batches }

\* every answer with a batch of at most MaxBatch records
FetchAnswers == Answers(UNION { BatchesOfLen(n) : n \in 0..MaxBatch })

\* the answers of a whole run: an error, no record or one record (timed,
\* all-day, declined by the user, without start)
RunAnswers ==
    LET at(m) == IsoDateTime(1, m, TRUE, 0)
        base  == [htmlLink |-> Link(1), summary |-> "Event 1"]
    IN  Answers({ <<>>,
                  <<base @@ [start |-> [dateTime |-> at(540)], end |-> [dateTime |-> at(600)]]>>,
                  <<base @@ [start |-> [date |-> IsoDate(1)], end |-> [date |-> IsoDate(2)]]>>,
                  <<base @@ [start |-> [dateTime |-> at(540)], end |-> [dateTime |-> at(600)],
                             attendees |-> <<[self |-> TRUE, responseStatus |-> "declined"]>>]>>,
                  <<base @@ [end |-> [dateTime |-> at(600)]]>> })

NotCalled == [kind |-> "not called", items |-> <<>>]

NoEvents == [none |-> TRUE, list |-> <<>>]

\* answers of the summarisation service: a text, or a failure with its error
RunOutcomes ==
    { [ok |-> TRUE, text |-> "A quiet week ahead."],
      [ok |-> TRUE, text |-> TextOf(1, WhatsAppLimit)],
      [ok |-> FALSE, text |-> "overloaded_error"] }

DeliveryOutcomes == { "sent", "TwilioRestException", "Exception" }

\* api_result before generate_summary has made its call
NotAsked == [ok |-> FALSE, text |-> None]

(***************************************************************************)
(* main.py, from step 3 (configuration and clients are in place)           *)
(***************************************************************************)
Init ==
    /\ pc = "fetch_weekly"
    /\ weekly_only \in BOOLEAN
    /\ DRY_RUN \in BOOLEAN
    /\ weekly_raw = NotCalled
    /\ monthly_raw = NotCalled
    /\ weekly_events = <<>>
    /\ monthly_events = NoEvents
    /\ events_text = <<>>
    /\ summary = ""
    /\ message = ""
    /\ twilio_calls = 0
    /\ exc = "none"
    /\ printed = <<>>
    /\ api_result = NotAsked

\* weekly_events = calendar_client.get_weekly_events()
FetchWeekly(answers) ==
    /\ pc = "fetch_weekly"
    /\ \E resp \in answers :
        LET r == GetEvents(resp)
        IN  /\ weekly_raw' = resp
            /\ IF r.exc # "none"
               THEN /\ exc' = r.exc
                    /\ pc' = "exit1"
                    /\ UNCHANGED weekly_events
               ELSE /\ weekly_events' = r.events
                    /\ pc' = "fetch_monthly"
                    /\ UNCHANGED exc
    /\ UNCHANGED <<weekly_only, DRY_RUN, monthly_raw, monthly_events, events_text,
                   summary, message, twilio_calls, printed,
                   api_result>>

\* monthly_events = None; if not args.weekly_only: get_monthly_events()
FetchMonthly(answers) ==
    /\ pc = "fetch_monthly"
    /\ IF weekly_only
       THEN /\ pc' = "check_empty"
            /\ UNCHANGED <<monthly_raw, monthly_events, exc>>
       ELSE \E resp \in answers :
                LET r == GetEvents(resp)
                IN  /\ monthly_raw' = resp
                    /\ IF r.exc # "none"
                       THEN /\ exc' = r.exc
                            /\ pc' = "exit1"
                            /\ UNCHANGED monthly_events
                       ELSE /\ monthly_events' = [none |-> FALSE, list |-> r.events]
                            /\ pc' = "check_empty"
                            /\ UNCHANGED exc
    /\ UNCHANGED <<weekly_only, DRY_RUN, weekly_raw, weekly_events, events_text,
                   summary, message, twilio_calls, printed,
                   api_result>>

\* if not weekly_events and not monthly_events: sys.exit(0)
CheckEmpty ==
    /\ pc = "check_empty"
    /\ pc' = IF Len(weekly_events) = 0
                /\ (monthly_events.none \/ Len(monthly_events.list) = 0)
             THEN "exit0" ELSE "summarise"
    /\ UNCHANGED <<weekly_only, DRY_RUN, weekly_raw, monthly_raw, weekly_events,
                   monthly_events, events_text, summary, message, twilio_calls, exc,
                   printed, api_result>>

\* generate_summary, its first statement: the text is built outside the try
\* block, so what _format_events_for_claude raises reaches main
FormatEvents ==
    /\ pc = "summarise"
    /\ LET r == FormatEventsForClaude(weekly_events, monthly_events)
       IN  IF r.exc # "none"
           THEN /\ exc' = r.exc
                /\ pc' = "exit1"
                /\ UNCHANGED events_text
           ELSE /\ events_text' = r.text
                /\ pc' = "call_claude"
                /\ UNCHANGED exc
    /\ UNCHANGED <<weekly_only, DRY_RUN, weekly_raw, monthly_raw, weekly_events,
                   monthly_events, summary, message, twilio_calls, printed,
                   api_result>>

\* generate_summary without its except clause: what the API call raises
\* reaches main, which exits
CallClaudeUncaught(outcomes) ==
    /\ pc = "call_claude"
    /\ \E outcome \in outcomes :
           /\ api_result' = outcome
           /\ IF outcome.ok
              THEN /\ summary' = outcome.text
                   /\ pc' = "send"
                   /\ UNCHANGED exc
              ELSE /\ exc' = "SummarizationError"
                   /\ pc' = "exit1"
                   /\ UNCHANGED summary
    /\ UNCHANGED <<weekly_only, DRY_RUN, weekly_raw, monthly_raw, weekly_events,
                   monthly_events, events_text, message, twilio_calls, printed>>

\* generate_summary, the API call in its try block
CallClaude(outcomes) ==
    /\ pc = "call_claude"
    /\ \E outcome \in outcomes :
           /\ api_result' = outcome
           /\ summary' = SummaryOf(outcome)
    /\ pc' = "send"
    /\ UNCHANGED <<weekly_only, DRY_RUN, weekly_raw, monthly_raw, weekly_events,
                   monthly_events, events_text, message, twilio_calls, exc, printed>>

\* whatsapp_client.send_summary(summary), up to return self.send_message(...)
SendSummary ==
    /\ pc = "send"
    /\ message' = FormattedMessage(summary, Subject)
    /\ pc' = "send_message"
    /\ UNCHANGED <<weekly_only, DRY_RUN, weekly_raw, monthly_raw, weekly_events,
                   monthly_events, events_text, summary, twilio_calls, exc, printed,
                   api_result>>

\* send_message with the DRY_RUN test dropped after the echo: the dry run
\* goes on to the Twilio call
SendMessageDryRunDelivers ==
    /\ pc = "send_message"
    /\ printed' = IF DRY_RUN THEN Append(printed, message) ELSE printed
    /\ \E outcome \in DeliveryOutcomes :
           /\ twilio_calls' = twilio_calls + 1
           /\ pc' = IF outcome = "sent" THEN "done" ELSE "exit1"
    /\ UNCHANGED <<weekly_only, DRY_RUN, weekly_raw, monthly_raw, weekly_events,
                   monthly_events, events_text, summary, message, exc, api_result>>

\* send_message and what main does with its result
SendMessage ==
    /\ pc = "send_message"
    /\ IF DRY_RUN
       THEN /\ printed' = Append(printed, message)
            /\ pc' = "done"
            /\ UNCHANGED twilio_calls
       ELSE \E outcome \in DeliveryOutcomes :
                /\ twilio_calls' = twilio_calls + 1
                /\ pc' = IF outcome = "sent" THEN "done" ELSE "exit1"
                /\ UNCHANGED printed
    /\ UNCHANGED <<weekly_only, DRY_RUN, weekly_raw, monthly_raw, weekly_events,
                   monthly_events, events_text, summary, message, exc, api_result>>

Next ==
    \/ FetchWeekly(RunAnswers)
    \/ FetchMonthly(RunAnswers)
    \/ CheckEmpty
    \/ FormatEvents
    \/ CallClaude(RunOutcomes)
    \/ SendSummary
    \/ SendMessage

Spec == Init /\ [][Next]_vars

\* main is one sequential process: while a statement remains it is executed
\* (every call to a collaborator returns or raises)
SpecLive == Spec /\ WF_vars(Next)

(***************************************************************************)
(* get_events alone: one fetch, over every answer with at most MaxBatch    *)
(* records                                                                 *)
(***************************************************************************)
InitFetch ==
    /\ pc = "fetch_weekly"
    /\ weekly_only = FALSE
    /\ DRY_RUN = FALSE
    /\ weekly_raw = NotCalled
    /\ monthly_raw = NotCalled
    /\ weekly_events = <<>>
    /\ monthly_events = NoEvents
    /\ events_text = <<>>
    /\ summary = ""
    /\ message = ""
    /\ twilio_calls = 0
    /\ exc = "none"
    /\ printed = <<>>
    /\ api_result = NotAsked

NextFetch == FetchWeekly(FetchAnswers)

SpecFetch == InitFetch /\ [][NextFetch]_vars

(***************************************************************************)
(* _process_event alone: one fetch that answers one well-formed record,    *)
(* over every attendee list of at most MaxAttendees entries                *)
(***************************************************************************)
Guest(i) == "guest" \o ToString(i) \o "@example.org"

\* the entries the provider can put at position i of an attendee list
AttendeeEntries(i) ==
    { [email |-> Guest(i)] @@ self @@ status @@ name :
        self \in { EmptyDict, [self |-> TRUE], [self |-> FALSE] },
        status \in { EmptyDict } \cup
                   { [responseStatus |-> r] :
                       r \in { "accepted", "declined", "tentative", "needsAction" } },
        name \in { EmptyDict, [displayName |-> "Guest " \o ToString(i)] } }

RECURSIVE AttendeeListsOfLen(_)
AttendeeListsOfLen(n) ==
    IF n = 0 THEN { <<>> }
    ELSE { Append(l, a) : l \in AttendeeListsOfLen(n - 1), a \in AttendeeEntries(n) }

AttendAnswers ==
    LET record == [htmlLink |-> Link(1), summary |-> "Event 1",
                   start |-> [dateTime |-> IsoDateTime(1, 540, TRUE, 0)],
                   end |-> [dateTime |-> IsoDateTime(1, 600, TRUE, 0)]]
    IN  { [kind |-> "items", items |-> <<record>>] }
        \cup { [kind |-> "items", items |-> <<record @@ [attendees |-> l]>>] :
                 l \in UNION { AttendeeListsOfLen(n) : n \in 0..MaxAttendees } }

NextAttend == FetchWeekly(AttendAnswers)

SpecAttend == InitFetch /\ [][NextAttend]_vars

(***************************************************************************)
(* _format_events_for_claude alone, over weekly and monthly sequences of   *)
(* at most MaxEvents well-formed events that differ in their start         *)
(***************************************************************************)
BuildStarts ==
    { IsoDate(0), IsoDate(1),
      IsoDateTime(0, 540, TRUE, 0), IsoDateTime(0, 600, FALSE, 60),
      IsoDateTime(0, 600, FALSE, 0), IsoDateTime(1, 540, TRUE, 0) }

\* an end of the same representation as the start
EndOf(start) ==
    IF start.T THEN [start EXCEPT !.min = start.min + 60]
    ELSE [start EXCEPT !.day = start.day + 1]

EventAt(title, start) ==
    [summary     |-> title,
     description |-> "",
     start       |-> start,
     end         |-> EndOf(start),
     is_all_day  |-> ~start.T,
     location    |-> "",
     attendees   |-> <<>>,
     organizer   |-> "Unknown",
     html_link   |-> ""]

RECURSIVE EventListsOfLen(_, _)
EventListsOfLen(prefix, n) ==
    IF n = 0 THEN { <<>> }
    ELSE { Append(l, EventAt(prefix \o ToString(n), st)) :
             l \in EventListsOfLen(prefix, n - 1), st \in BuildStarts }

EventLists(prefix) == UNION { EventListsOfLen(prefix, n) : n \in 0..MaxEvents }

InitBuild ==
    /\ pc = "summarise"
    /\ weekly_only = FALSE
    /\ DRY_RUN = FALSE
    /\ weekly_raw = NotCalled
    /\ monthly_raw = NotCalled
    /\ weekly_events \in EventLists("W")
    /\ monthly_events \in
         { NoEvents } \cup { [none |-> FALSE, list |-> l] : l \in EventLists("M") }
    /\ events_text = <<>>
    /\ summary = ""
    /\ message = ""
    /\ twilio_calls = 0
    /\ exc = "none"
    /\ printed = <<>>
    /\ api_result = NotAsked

NextBuild == FormatEvents

SpecBuild == InitBuild /\ [][NextBuild]_vars

(***************************************************************************)
(* _format_single_event alone: one event, over every combination of its    *)
(* optional fields                                                         *)
(***************************************************************************)
Guests(n) ==
    [i \in 1..n |-> [email  |-> "guest" \o ToString(i) \o "@example.org",
                     name   |-> "Guest " \o ToString(i),
                     status |-> "accepted"]]

RichEvents ==
    { [EventAt("Review", st) EXCEPT !.location = loc,
                                    !.description = TextOf(seed, len),
                                    !.attendees = Guests(n)] :
        st \in { IsoDate(0), IsoDateTime(0, 540, TRUE, 0) },
        loc \in { "", "Room 4" },
        seed \in Seeds,
        len \in 0..MaxDescLen,
        n \in 0..MaxAttendees }

InitRender ==
    /\ pc = "summarise"
    /\ weekly_only = TRUE
    /\ DRY_RUN = FALSE
    /\ weekly_raw = NotCalled
    /\ monthly_raw = NotCalled
    /\ weekly_events \in { <<event>> : event \in RichEvents }
    /\ monthly_events = NoEvents
    /\ events_text = <<>>
    /\ summary = ""
    /\ message = ""
    /\ twilio_calls = 0
    /\ exc = "none"
    /\ printed = <<>>
    /\ api_result = NotAsked

NextRender == FormatEvents

SpecRender == InitRender /\ [][NextRender]_vars

(***************************************************************************)
(* send_summary alone, over summaries of every length up to MaxSummaryLen  *)
(***************************************************************************)
InitSend ==
    /\ pc = "send"
    /\ weekly_only = FALSE
    /\ DRY_RUN \in BOOLEAN
    /\ weekly_raw = NotCalled
    /\ monthly_raw = NotCalled
    /\ weekly_events = <<>>
    /\ monthly_events = NoEvents
    /\ events_text = <<>>
    /\ summary \in { TextOf(seed, n) : seed \in Seeds, n \in 0..MaxSummaryLen }
    /\ message = ""
    /\ twilio_calls = 0
    /\ exc = "none"
    /\ printed = <<>>
    /\ api_result = NotAsked

NextSend == SendSummary \/ SendMessage

SpecSend == InitSend /\ [][NextSend]_vars

(***************************************************************************)
(* Properties                                                              *)
(***************************************************************************)
\* the notions the properties are stated with, written without the
\* operators of the program
SelfDeclined(record) ==
    /\ "attendees" \in DOMAIN record
    /\ \E i \in DOMAIN record.attendees :
          LET a == record.attendees[i]
          IN  /\ "self" \in DOMAIN a
              /\ a.self = TRUE
              /\ "responseStatus" \in DOMAIN a
              /\ a.responseStatus = "declined"

HasStartAndEnd(record) == "start" \in DOMAIN record /\ "end" \in DOMAIN record

LinksOf(events) == [i \in 1..Len(events) |-> events[i].html_link]

RawLinksOf(records) == [i \in 1..Len(records) |-> records[i].htmlLink]

Kept(records) ==
    SelectSeq(records, LAMBDA r : ~SelfDeclined(r) /\ HasStartAndEnd(r))

FetchEnded == pc # "fetch_weekly" /\ weekly_raw.kind = "items"

StartsWith(line, prefix) ==
    Len(line) >= Len(prefix) /\ SubSeq(line, 1, Len(prefix)) = prefix

Instant(iso) == iso.day * 1440 + iso.min - iso.off

HasLine(text, line) == \E i \in 1..Len(text) : text[i] = line

\* the title lines that follow the monthly header, as titles
MonthlyTitles(text) ==
    IF ~HasLine(text, MonthlyHeader) THEN <<>>
    ELSE LET h == CHOOSE i \in 1..Len(text) : text[i] = MonthlyHeader
             bullets == SelectSeq(SubSeq(text, h + 1, Len(text)),
                                  LAMBDA line : StartsWith(line, "* "))
         IN  [i \in 1..Len(bullets) |-> SubSeq(bullets[i], 3, Len(bullets[i]))]

TitlesOf(events) == [i \in 1..Len(events) |-> events[i].summary]

Built == pc = "call_claude"

LabelOf(line) ==
    IF StartsWith(line, "* ") THEN "title"
    ELSE IF StartsWith(line, "  Time: ") THEN "time"
    ELSE IF StartsWith(line, "  Location: ") THEN "location"
    ELSE IF StartsWith(line, "  Description: ") THEN "description"
    ELSE IF StartsWith(line, "  Attendees: ") THEN "attendees"
    ELSE "other"

\* C1 (checked under SpecFetch): of a batch the provider returned, get_events
\* returns no event built from a record the user declined, and exactly one
\* event, in the provider's order, for every other record (of those that
\* have a start and an end: a record without them is the subject of C6).
C1_DeclinedDroppedOthersKept ==
    FetchEnded => LinksOf(weekly_events) = RawLinksOf(Kept(weekly_raw.items))

\* C6 (checked under SpecFetch): a record without start or end fails alone:
\* the failure is signalled, and the other records of the batch that are
\* well-formed and not declined are still normalized and returned.
C6_MalformedFailsAlone ==
    (FetchEnded /\ \E i \in 1..Len(weekly_raw.items) :
                      /\ ~SelfDeclined(weekly_raw.items[i])
                      /\ ~HasStartAndEnd(weekly_raw.items[i]))
    => /\ exc = "KeyError"
       /\ LinksOf(weekly_events) = RawLinksOf(Kept(weekly_raw.items))

\* C7 (checked under SpecFetch): in every event get_events returns,
\* is_all_day is true iff the start value is the date-only one: an event
\* whose start is a timestamp has is_all_day false.
C7_AllDayAgreesWithStart ==
    \A i \in 1..Len(weekly_events) :
        weekly_events[i].is_all_day = ~weekly_events[i].start.T

\* C8 (checked under Spec): once the provider signalled an error to a fetch,
\* the run invokes neither the summarisation nor the delivery.
C8_ProviderErrorEndsRun ==
    (weekly_raw.kind \in {"HttpError", "OtherError"}
        \/ monthly_raw.kind \in {"HttpError", "OtherError"})
    => /\ pc \notin {"call_claude", "send", "send_message", "done"}
       /\ twilio_calls = 0

\* C2 (checked under SpecSend): whatever the length of the summary,
\* send_summary reaches send_message, and with a body of at most 1600
\* characters.
C2_BodyWithinLimit ==
    pc # "send" => (exc = "none" /\ Len(message) <= 1600)

C2_Witness ==
    /\ pc = "send_message"
    /\ Len(summary) > 1600
    /\ Len(message) > 1550

\* C3 (checked under SpecSend): with m the subject line, a blank line and
\* the summary, the body is m when len(m) <= 1600 and otherwise the first
\* limit - 50 = 1550 characters of m followed by the truncation marker.
C3_BodyIsMessageOrCut ==
    pc # "send" =>
        LET m == "# Weekly Calendar Summary" \o "\n\n" \o summary
        IN  message = IF Len(m) <= 1600 THEN m
                      ELSE SubSeq(m, 1, 1600 - 50) \o "\n\n... (message truncated)"

C3_Witness ==
    /\ pc = "send_message"
    /\ Len("# Weekly Calendar Summary" \o "\n\n" \o summary) = 1601
    /\ Len(message) = 1575

C5_BuildNeverFails ==
    pc # "summarise" => (pc = "call_claude" /\ exc = "none")

\* C9 (checked under SpecBuild): when weekly is empty the built text is the
\* weekly header, the blank line and the "no events" sentence, and nothing
\* of a monthly section, whatever monthly is.
C9_EmptyWeeklyNoMonthly ==
    (pc # "summarise" /\ Len(weekly_events) = 0) =>
        /\ Built
        /\ events_text = << "=== WEEKLY EVENTS (Next 7 Days) ===", "",
                            "No events scheduled for the next week." >>

C9_Witness ==
    /\ Built
    /\ Len(weekly_events) = 0
    /\ ~monthly_events.none
    /\ Len(monthly_events.list) = 2
    /\ Len(events_text) = 3

\* C10 (checked under SpecRender): the block of an event has its lines in
\* the order title, time, location, description, attendee count; title and
\* time always, each of the other three iff its value is not empty.
C10_FieldOrder ==
    Built =>
        LET event == weekly_events[1]
            block == SubSeq(events_text, 3, Len(events_text) - 1)
        IN  /\ events_text[Len(events_text)] = ""
            /\ [i \in 1..Len(block) |-> LabelOf(block[i])]
                 = <<"title", "time">>
                   \o (IF event.location # "" THEN <<"location">> ELSE <<>>)
                   \o (IF event.description # "" THEN <<"description">> ELSE <<>>)
                   \o (IF Len(event.attendees) > 0 THEN <<"attendees">> ELSE <<>>)

C10_Witness ==
    /\ Built
    /\ weekly_events[1].location # ""
    /\ weekly_events[1].description # ""
    /\ Len(weekly_events[1].attendees) > 0
    /\ Len(events_text) = 8

\* C11: in dry-run mode send_message makes no call to the delivery service,
\* prints exactly the bounded message it was given and returns success, so the
\* run ends as a successful run; outside dry-run mode send_message makes the
\* delivery call exactly once.  Before send_message has run nothing has been
\* delivered or printed.
C11_DryRunPrintsOthersDeliverOnce ==
    /\ pc \in { "send", "send_message" } => (twilio_calls = 0 /\ printed = <<>>)
    /\ pc \in { "done", "exit1" } =>
         IF DRY_RUN
         THEN /\ twilio_calls = 0
              /\ printed = <<message>>
              /\ Len(message) <= 1600
              /\ pc = "done"
         ELSE /\ twilio_calls = 1
              /\ printed = <<>>

\* C11: a dry run of a summary longer than the limit has ended successfully
\* with the cut message printed
C11_Witness ==
    /\ DRY_RUN
    /\ pc = "done"
    /\ Len(summary) > 1600
    /\ printed = <<message>>
    /\ twilio_calls = 0

\* the raw attendee entries whose 'self' is not true, in their order
NotSelf(entries) ==
    SelectSeq(entries, LAMBDA a : ~("self" \in DOMAIN a /\ a.self = TRUE))

RawAttendees(record) ==
    IF "attendees" \in DOMAIN record THEN record.attendees ELSE <<>>

\* C12: the attendees of every event _process_event produces are exactly the
\* raw attendee entries whose self is not true, in their original order: one
\* output entry per such raw entry, carrying its email, and none for an entry
\* whose self is true.
C12_AttendeesAreTheNonSelfEntries ==
    FetchEnded =>
        LET kept == Kept(weekly_raw.items)
        IN  /\ Len(weekly_events) = Len(kept)
            /\ \A i \in 1..Len(kept) :
                  LET others == NotSelf(RawAttendees(kept[i]))
                      made   == weekly_events[i].attendees
                  IN  /\ Len(made) = Len(others)
                      /\ \A j \in 1..Len(others) : made[j].email = others[j].email

\* C12: an event came back whose raw record lists the user first and then
\* another attendee; the event has one attendee, the second raw entry
C12_Witness ==
    /\ FetchEnded
    /\ Len(weekly_events) = 1
    /\ LET raw == RawAttendees(weekly_raw.items[1])
       IN  /\ Len(raw) = 2
           /\ "self" \in DOMAIN raw[1] /\ raw[1].self = TRUE
           /\ "self" \in DOMAIN raw[2] /\ raw[2].self = FALSE
           /\ Len(weekly_events[1].attendees) = 1
           /\ weekly_events[1].attendees[1].email = raw[2].email

\* the attendees of the one event of the fetch, each with its raw entry
OneEventBack == FetchEnded /\ Len(weekly_events) = 1 /\ Len(weekly_raw.items) = 1

RawOthers == NotSelf(RawAttendees(weekly_raw.items[1]))

\* C13, the claim as stated: a non-self attendee entry without responseStatus
\* has the status unknown in the event, and every attendee status of an event
\* is one of accepted, declined, tentative, needsAction, unknown.
C13_MissingStatusIsUnknown ==
    OneEventBack =>
        \A j \in 1..Len(weekly_events[1].attendees) :
            LET status == weekly_events[1].attendees[j].status
            IN  /\ status \in { "accepted", "declined", "tentative", "needsAction",
                                "unknown" }
                /\ "responseStatus" \notin DOMAIN RawOthers[j] => status = "unknown"

\* C13, amended: the status of an attendee of an event is the responseStatus
\* of its raw entry, unchanged, and None (no value) when the raw entry has no
\* responseStatus; the value unknown is never produced.
C13_StatusIsRawOrNone ==
    OneEventBack =>
        \A j \in 1..Len(weekly_events[1].attendees) :
            LET status == weekly_events[1].attendees[j].status
                raw    == RawOthers[j]
            IN  /\ status # "unknown"
                /\ IF "responseStatus" \in DOMAIN raw
                   THEN status = raw.responseStatus
                   ELSE status = None

\* C13: an event came back with an attendee whose raw entry has no
\* responseStatus and is not the user's; its status is None
C13_Witness ==
    /\ OneEventBack
    /\ \E j \in 1..Len(weekly_events[1].attendees) :
          /\ "responseStatus" \notin DOMAIN RawOthers[j]
          /\ weekly_events[1].attendees[j].email = RawOthers[j].email
          /\ weekly_events[1].attendees[j].status = None

\* the lines of the built text that are description lines
DescriptionLines ==
    SelectSeq(events_text, LAMBDA line : LabelOf(line) = "description")

\* C14: an event with a non-empty description d is rendered with one
\* description line; the line shows d unchanged when d has at most 200
\* characters (exactly 200 included) and the first 200 characters of d
\* followed by "..." when d has more than 200.
C14_DescriptionCutAfter200 ==
    (Built /\ weekly_events[1].description # "") =>
        LET d == weekly_events[1].description
        IN  /\ Len(DescriptionLines) = 1
            /\ DescriptionLines[1] =
                 "  Description: "
                 \o (IF Len(d) <= 200 THEN d ELSE SubSeq(d, 1, 200) \o "...")

\* C14: an event with a description of 201 characters has been rendered; its
\* description line ends with "..." after the first 200 characters
C14_Witness ==
    /\ Built
    /\ Len(weekly_events[1].description) = 201
    /\ Len(DescriptionLines) = 1
    /\ Len(DescriptionLines[1]) = 15 + 200 + 3
    /\ SubSeq(DescriptionLines[1], 216, 218) = "..."

\* send_message has been called with the message: printed in a dry run,
\* handed to the delivery service once otherwise
DeliveryAttempted ==
    /\ pc \in { "done", "exit1" }
    /\ IF DRY_RUN THEN printed = <<message>> ELSE twilio_calls = 1

\* the message is the subject line, an empty line and the summary, cut to the
\* first 1550 characters when that is longer than 1600
CarriesSummary ==
    LET full == "# Weekly Calendar Summary" \o "\n\n" \o summary
    IN  IF Len(full) <= 1600 THEN message = full
        ELSE SubSeq(message, 1, 1550) = SubSeq(full, 1, 1550)

FailureTextIsSummary ==
    ~api_result.ok => summary = "Failed to generate summary: " \o api_result.text

\* C15 (checked under SpecLive): a failure of the summarisation service does
\* not end the run.  The step that makes the API call always hands main a
\* summary, the text "Failed to generate summary: <error>" when the call
\* failed, without an exception; and every run that reaches the API call goes
\* on to call send_message with the bounded message made of that summary.
C15_SummaryFailureStillDelivers ==
    /\ [][pc = "call_claude" =>
            /\ pc' = "send"
            /\ exc' = "none"
            /\ FailureTextIsSummary']_vars
    /\ (pc = "call_claude") ~>
            (DeliveryAttempted /\ CarriesSummary /\ FailureTextIsSummary)

\* C15: the API call failed with overloaded_error and the run went on to a
\* delivery call with the failure text in the message
C15_Witness ==
    /\ pc \in { "done", "exit1" }
    /\ ~DRY_RUN
    /\ api_result = [ok |-> FALSE, text |-> "overloaded_error"]
    /\ summary = "Failed to generate summary: overloaded_error"
    /\ message = "# Weekly Calendar Summary\n\nFailed to generate summary: overloaded_error"
    /\ twilio_calls = 1

====
